---- MODULE Spec2Model ----
(***************************************************************************)
(* A model of reference.py, the EDI document reference tool: the static    *)
(* dataset (STANDARDS, get_edi_documents), the three query operations      *)
(* (list_standards, list_edi_documents, search_edi_code) and main's        *)
(* dispatch over the parsed command-line flags.                            *)
(*                                                                         *)
(* Text that the code inspects (document codes, standard names, industry   *)
(* names, the code and filter arguments) is a sequence of one-character    *)
(* strings, so that upper(), lower(), isdigit(), int(), `in' and the       *)
(* ordering of str are computed character by character.  Text that is      *)
(* only copied to the output (names, descriptions, versions) is a string.  *)
(* Standard output is a sequence of lines; a line is a record naming the   *)
(* print statement that wrote it and the values it interpolated.  The      *)
(* empty lines that the "\n" in the format strings add are not recorded.   *)
(***************************************************************************)
EXTENDS Integers, Sequences, FiniteSets, TLC

VARIABLES
    pc,      \* position of the run: main ("start", "parsed", "done"), a direct
             \* call ("idle", "returned"), a pair of listings, or a sort
    args,    \* argparse's namespace in a run of main; the arguments of the call otherwise
    calls,   \* the operations invoked so far, each with its arguments
    out,     \* standard output
    out2,    \* standard output of the second listing of a pair
    keys,    \* docs.keys() handed to sorted()
    result,  \* what sorted() gave: a list, or the exception it raised
    dataset  \* STANDARDS and the mapping get_edi_documents() last built, as the
             \* operations left them

vars == <<pc, args, calls, out, out2, keys, result, dataset>>

----------------------------------------------------------------------------
\* Characters and the str methods the code uses.

UpperCase ==
    <<"A", "B", "C", "D", "E", "F", "G", "H", "I", "J", "K", "L", "M",
      "N", "O", "P", "Q", "R", "S", "T", "U", "V", "W", "X", "Y", "Z">>

LowerCase ==
    <<"a", "b", "c", "d", "e", "f", "g", "h", "i", "j", "k", "l", "m",
      "n", "o", "p", "q", "r", "s", "t", "u", "v", "w", "x", "y", "z">>

Digits == <<"0", "1", "2", "3", "4", "5", "6", "7", "8", "9">>

\* The punctuation of the dataset and of the inputs, each with its code point.
Punctuation ==
    <<[c |-> " ", ord |-> 32], [c |-> "(", ord |-> 40], [c |-> ")", ord |-> 41],
      [c |-> "-", ord |-> 45], [c |-> ".", ord |-> 46], [c |-> "/", ord |-> 47]>>

Range(f) == {f[i] : i \in DOMAIN f}

IndexOf(seq, c) == CHOOSE i \in 1..Len(seq) : seq[i] = c

\* ord(c): the code point of c, which orders str values.
ord(c) ==
    IF c \in Range(Digits) THEN 47 + IndexOf(Digits, c)
    ELSE IF c \in Range(UpperCase) THEN 64 + IndexOf(UpperCase, c)
    ELSE IF c \in Range(LowerCase) THEN 96 + IndexOf(LowerCase, c)
    ELSE (CHOOSE p \in Range(Punctuation) : p.c = c).ord

\* str.lower()
str_lower(s) ==
    [i \in 1..Len(s) |->
        IF s[i] \in Range(UpperCase) THEN LowerCase[IndexOf(UpperCase, s[i])] ELSE s[i]]

\* upper() taken for lower().
str_upper_lowering(s) == str_lower(s)

\* str.upper()
str_upper(s) ==
    [i \in 1..Len(s) |->
        IF s[i] \in Range(LowerCase) THEN UpperCase[IndexOf(LowerCase, s[i])] ELSE s[i]]

\* str.isdigit(): non-empty and every character a digit.
str_isdigit(s) == Len(s) > 0 /\ \A i \in 1..Len(s) : s[i] \in Range(Digits)

\* int(s) of an all-digit s, base 10 (leading zeros allowed).
RECURSIVE int(_)
int(s) ==
    IF Len(s) = 0 THEN 0
    ELSE 10 * int(SubSeq(s, 1, Len(s) - 1)) + (IndexOf(Digits, s[Len(s)]) - 1)

\* s in t: s is a contiguous substring of t.
str_contains(s, t) ==
    \E i \in 0..(Len(t) - Len(s)) : SubSeq(t, i + 1, i + Len(s)) = s

\* s < t for str: lexicographic by code point, a proper prefix first.
str_lt(s, t) ==
    \E i \in 1..(Len(t)) :
        /\ i <= Len(s) + 1
        /\ SubSeq(s, 1, i - 1) = SubSeq(t, 1, i - 1)
        /\ (i = Len(s) + 1 \/ ord(s[i]) < ord(t[i]))

\* None, told apart from every str: no str holds a many-character element.
None == <<"None">>

\* bool(x) of an Optional[str]: None and "" are falsy.
truthy(x) == x # None /\ x # <<>>

----------------------------------------------------------------------------
\* The dataset.

\* class Industry(Enum): member |-> Industry.<member>.name, as a sequence of characters.
Industry ==
    [RETAIL |-> <<"R", "E", "T", "A", "I", "L">>,
     HEALTHCARE |-> <<"H", "E", "A", "L", "T", "H", "C", "A", "R", "E">>,
     MANUFACTURING |-> <<"M", "A", "N", "U", "F", "A", "C", "T", "U", "R", "I", "N", "G">>,
     LOGISTICS |-> <<"L", "O", "G", "I", "S", "T", "I", "C", "S">>,
     AUTOMOTIVE |-> <<"A", "U", "T", "O", "M", "O", "T", "I", "V", "E">>,
     TECHNOLOGY |-> <<"T", "E", "C", "H", "N", "O", "L", "O", "G", "Y">>,
     FINANCE |-> <<"F", "I", "N", "A", "N", "C", "E">>]

\* STANDARDS: the ordered mapping key -> EdiStandard (insertion order kept), names as
\* sequences of characters.
STANDARDS ==
    <<[key |-> "ANSI_X12",
      value |-> [name |-> <<"A", "N", "S", "I", " ", "X", "1", "2", " ", "(", "N", "o", "r", "t", "h", " ", "A", "m", "e", "r", "i", "c", "a", "n", " ", "S", "t", "a", "n", "d", "a", "r", "d", ")">>,
                latest_version |-> "6030", region |-> "North America",
                governing_body |-> "ANSI", year_established |-> 1979]],
      [key |-> "EDIFACT",
      value |-> [name |-> <<"E", "D", "I", "F", "A", "C", "T", " ", "(", "I", "n", "t", "e", "r", "n", "a", "t", "i", "o", "n", "a", "l", " ", "S", "t", "a", "n", "d", "a", "r", "d", ")">>,
                latest_version |-> "D22B", region |-> "Global",
                governing_body |-> "UNECE", year_established |-> 1987]],
      [key |-> "TRADACOMS",
      value |-> [name |-> <<"T", "R", "A", "D", "A", "C", "O", "M", "S", " ", "(", "U", "K", " ", "R", "e", "t", "a", "i", "l", " ", "S", "t", "a", "n", "d", "a", "r", "d", ")">>,
                latest_version |-> "v3", region |-> "United Kingdom",
                governing_body |-> "GS1 UK", year_established |-> 1982]],
      [key |-> "VDA",
      value |-> [name |-> <<"V", "D", "A", " ", "(", "G", "e", "r", "m", "a", "n", " ", "A", "u", "t", "o", "m", "o", "t", "i", "v", "e", " ", "S", "t", "a", "n", "d", "a", "r", "d", ")">>,
                latest_version |-> "6.0", region |-> "Germany",
                governing_body |-> "VDA", year_established |-> 1977]],
      [key |-> "ROSETTANET",
      value |-> [name |-> <<"R", "o", "s", "e", "t", "t", "a", "N", "e", "t", " ", "(", "T", "e", "c", "h", "n", "o", "l", "o", "g", "y", " ", "I", "n", "d", "u", "s", "t", "r", "y", " ", "S", "t", "a", "n", "d", "a", "r", "d", ")">>,
                latest_version |-> "02.00.00", region |-> "Global",
                governing_body |-> "GS1", year_established |-> 1998]]>>

\* STANDARDS[key]
STANDARDS_at(k) == (CHOOSE i \in 1..Len(STANDARDS) : STANDARDS[i].key = k)

STANDARDS_get(k) == STANDARDS[STANDARDS_at(k)].value

\* The document mapping of ANSI_X12, in definition order: key |-> EdiDocument.
ANSI_X12_documents ==
    <<[key |-> <<"2", "0", "4">>,
       doc |-> [code |-> <<"2", "0", "4">>, name |-> "Motor Carrier Load Tender",
                description |-> "A transportation order for shipping goods between locations",
                common_versions |-> <<"4010", "4030", "5010", "6030">>,
                industries |-> <<"LOGISTICS", "MANUFACTURING">>,
                direction |-> "Outbound",
                transaction_flow |-> "Shipper -> Carrier"]],
      [key |-> <<"2", "1", "0">>,
       doc |-> [code |-> <<"2", "1", "0">>, name |-> "Motor Carrier Freight Details and Invoice",
                description |-> "Detailed freight invoice from carrier to shipper",
                common_versions |-> <<"4010", "5010", "6030">>,
                industries |-> <<"LOGISTICS">>,
                direction |-> "Inbound",
                transaction_flow |-> "Carrier -> Shipper"]],
      [key |-> <<"8", "1", "0">>,
       doc |-> [code |-> <<"8", "1", "0">>, name |-> "Invoice",
                description |-> "Electronic invoice document for billing purposes",
                common_versions |-> <<"4010", "5010", "6030">>,
                industries |-> <<"RETAIL", "MANUFACTURING", "HEALTHCARE">>,
                direction |-> "Both",
                transaction_flow |-> "Supplier -> Buyer or Service Provider -> Client"]],
      [key |-> <<"8", "2", "0">>,
       doc |-> [code |-> <<"8", "2", "0">>, name |-> "Payment Order/Remittance Advice",
                description |-> "Electronic funds transfer payment information",
                common_versions |-> <<"4010", "5010", "6030">>,
                industries |-> <<"FINANCE", "RETAIL", "MANUFACTURING">>,
                direction |-> "Outbound",
                transaction_flow |-> "Payer -> Payee"]],
      [key |-> <<"8", "3", "4">>,
       doc |-> [code |-> <<"8", "3", "4">>, name |-> "Benefit Enrollment and Maintenance",
                description |-> "Health insurance enrollment information exchange",
                common_versions |-> <<"4010", "5010", "6030">>,
                industries |-> <<"HEALTHCARE">>,
                direction |-> "Both",
                transaction_flow |-> "Employer -> Insurance Carrier or Government Agency -> Provider"]],
      [key |-> <<"8", "5", "0">>,
       doc |-> [code |-> <<"8", "5", "0">>, name |-> "Purchase Order",
                description |-> "Buyer's formal request to purchase goods/services",
                common_versions |-> <<"4010", "5010", "6030">>,
                industries |-> <<"RETAIL", "MANUFACTURING", "TECHNOLOGY">>,
                direction |-> "Outbound",
                transaction_flow |-> "Buyer -> Supplier"]],
      [key |-> <<"8", "5", "5">>,
       doc |-> [code |-> <<"8", "5", "5">>, name |-> "Purchase Order Acknowledgment",
                description |-> "Supplier's response accepting or rejecting a PO",
                common_versions |-> <<"4010", "5010", "6030">>,
                industries |-> <<"RETAIL", "MANUFACTURING">>,
                direction |-> "Inbound",
                transaction_flow |-> "Supplier -> Buyer"]],
      [key |-> <<"8", "5", "6">>,
       doc |-> [code |-> <<"8", "5", "6">>, name |-> "Advance Shipping Notice",
                description |-> "Detailed shipment information prior to delivery",
                common_versions |-> <<"4010", "5010", "6030">>,
                industries |-> <<"RETAIL", "MANUFACTURING", "LOGISTICS">>,
                direction |-> "Outbound",
                transaction_flow |-> "Supplier -> Buyer"]],
      [key |-> <<"9", "4", "0">>,
       doc |-> [code |-> <<"9", "4", "0">>, name |-> "Warehouse Shipping Order",
                description |-> "Instruction to warehouse to ship goods",
                common_versions |-> <<"4010", "5010", "6030">>,
                industries |-> <<"LOGISTICS", "RETAIL">>,
                direction |-> "Outbound",
                transaction_flow |-> "Retailer -> Warehouse"]],
      [key |-> <<"9", "4", "5">>,
       doc |-> [code |-> <<"9", "4", "5">>, name |-> "Warehouse Shipping Advice",
                description |-> "Confirmation of warehouse shipment",
                common_versions |-> <<"4010", "5010", "6030">>,
                industries |-> <<"LOGISTICS", "RETAIL">>,
                direction |-> "Inbound",
                transaction_flow |-> "Warehouse -> Retailer"]],
      [key |-> <<"9", "9", "7">>,
       doc |-> [code |-> <<"9", "9", "7">>, name |-> "Functional Acknowledgment",
                description |-> "Technical confirmation of received EDI transmission",
                common_versions |-> <<"4010", "5010", "6030">>,
                industries |-> <<"RETAIL", "MANUFACTURING", "HEALTHCARE">>,
                direction |-> "Both",
                transaction_flow |-> "Between trading partners"]]>>

\* The document mapping of EDIFACT, in definition order: key |-> EdiDocument.
EDIFACT_documents ==
    <<[key |-> <<"D", "E", "S", "A", "D", "V">>,
       doc |-> [code |-> <<"D", "E", "S", "A", "D", "V">>, name |-> "Dispatch Advice",
                description |-> "Notification of goods dispatched (similar to X12 856)",
                common_versions |-> <<"D96A", "D00B", "D22B">>,
                industries |-> <<"LOGISTICS", "MANUFACTURING">>,
                direction |-> "Outbound",
                transaction_flow |-> "Supplier -> Buyer"]],
      [key |-> <<"I", "F", "C", "S", "U", "M">>,
       doc |-> [code |-> <<"I", "F", "C", "S", "U", "M">>, name |-> "International Forwarding and Consolidation Summary",
                description |-> "Shipping consolidation details for international logistics",
                common_versions |-> <<"D96A", "D00B", "D22B">>,
                industries |-> <<"LOGISTICS">>,
                direction |-> "Both",
                transaction_flow |-> "Between logistics providers"]],
      [key |-> <<"I", "N", "V", "O", "I", "C">>,
       doc |-> [code |-> <<"I", "N", "V", "O", "I", "C">>, name |-> "Invoice",
                description |-> "International invoice document for billing",
                common_versions |-> <<"D96A", "D00B", "D22B">>,
                industries |-> <<"RETAIL", "MANUFACTURING">>,
                direction |-> "Outbound",
                transaction_flow |-> "Supplier -> Buyer"]],
      [key |-> <<"O", "R", "D", "E", "R", "S">>,
       doc |-> [code |-> <<"O", "R", "D", "E", "R", "S">>, name |-> "Purchase Order",
                description |-> "International purchase order document",
                common_versions |-> <<"D96A", "D00B", "D22B">>,
                industries |-> <<"RETAIL", "MANUFACTURING">>,
                direction |-> "Outbound",
                transaction_flow |-> "Buyer -> Supplier"]],
      [key |-> <<"O", "R", "D", "R", "S", "P">>,
       doc |-> [code |-> <<"O", "R", "D", "R", "S", "P">>, name |-> "Order Response",
                description |-> "Response to a purchase order (acceptance/rejection)",
                common_versions |-> <<"D96A", "D00B", "D22B">>,
                industries |-> <<"RETAIL", "MANUFACTURING">>,
                direction |-> "Inbound",
                transaction_flow |-> "Supplier -> Buyer"]],
      [key |-> <<"P", "R", "I", "C", "A", "T">>,
       doc |-> [code |-> <<"P", "R", "I", "C", "A", "T">>, name |-> "Price/Sales Catalog",
                description |-> "Product catalog with pricing information",
                common_versions |-> <<"D96A", "D00B", "D22B">>,
                industries |-> <<"RETAIL", "MANUFACTURING">>,
                direction |-> "Outbound",
                transaction_flow |-> "Supplier -> Buyer"]],
      [key |-> <<"R", "E", "C", "A", "D", "V">>,
       doc |-> [code |-> <<"R", "E", "C", "A", "D", "V">>, name |-> "Receiving Advice",
                description |-> "Notification of goods received (similar to X12 861)",
                common_versions |-> <<"D96A", "D00B", "D22B">>,
                industries |-> <<"RETAIL", "MANUFACTURING">>,
                direction |-> "Inbound",
                transaction_flow |-> "Buyer -> Supplier"]]>>

\* The document mapping of TRADACOMS, in definition order: key |-> EdiDocument.
TRADACOMS_documents ==
    <<[key |-> <<"D", "E", "L", "H", "D", "R">>,
       doc |-> [code |-> <<"D", "E", "L", "H", "D", "R">>, name |-> "Delivery Header",
                description |-> "Delivery instructions for UK retail orders",
                common_versions |-> <<"v1", "v2", "v3">>,
                industries |-> <<"RETAIL">>,
                direction |-> "Outbound",
                transaction_flow |-> "Supplier -> Retailer"]],
      [key |-> <<"I", "N", "V", "F", "I", "L">>,
       doc |-> [code |-> <<"I", "N", "V", "F", "I", "L">>, name |-> "Invoice File",
                description |-> "UK retail-specific invoice format",
                common_versions |-> <<"v1", "v2", "v3">>,
                industries |-> <<"RETAIL">>,
                direction |-> "Outbound",
                transaction_flow |-> "Supplier -> Retailer"]],
      [key |-> <<"O", "R", "D", "H", "D", "R">>,
       doc |-> [code |-> <<"O", "R", "D", "H", "D", "R">>, name |-> "Order Header",
                description |-> "UK retail purchase order document",
                common_versions |-> <<"v1", "v2", "v3">>,
                industries |-> <<"RETAIL">>,
                direction |-> "Outbound",
                transaction_flow |-> "Retailer -> Supplier"]],
      [key |-> <<"O", "R", "D", "C", "H", "G">>,
       doc |-> [code |-> <<"O", "R", "D", "C", "H", "G">>, name |-> "Order Change",
                description |-> "Modification to an existing purchase order",
                common_versions |-> <<"v1", "v2", "v3">>,
                industries |-> <<"RETAIL">>,
                direction |-> "Both",
                transaction_flow |-> "Between retailer and supplier"]]>>

\* The document mapping of VDA, in definition order: key |-> EdiDocument.
VDA_documents ==
    <<[key |-> <<"4", "9", "0", "5">>,
       doc |-> [code |-> <<"4", "9", "0", "5">>, name |-> "Delivery Schedule",
                description |-> "Just-in-time delivery schedule for automotive manufacturing",
                common_versions |-> <<"4.3", "5.0", "6.0">>,
                industries |-> <<"AUTOMOTIVE">>,
                direction |-> "Outbound",
                transaction_flow |-> "OEM -> Supplier"]],
      [key |-> <<"4", "9", "1", "3">>,
       doc |-> [code |-> <<"4", "9", "1", "3">>, name |-> "Invoice",
                description |-> "Automotive industry-specific invoice format",
                common_versions |-> <<"4.3", "5.0", "6.0">>,
                industries |-> <<"AUTOMOTIVE">>,
                direction |-> "Outbound",
                transaction_flow |-> "Supplier -> OEM"]],
      [key |-> <<"4", "9", "8", "1">>,
       doc |-> [code |-> <<"4", "9", "8", "1">>, name |-> "Shipping Notification",
                description |-> "Advanced shipping notice for automotive parts",
                common_versions |-> <<"4.3", "5.0", "6.0">>,
                industries |-> <<"AUTOMOTIVE">>,
                direction |-> "Outbound",
                transaction_flow |-> "Supplier -> OEM"]]>>

\* The document mapping of ROSETTANET, in definition order: key |-> EdiDocument.
ROSETTANET_documents ==
    <<[key |-> <<"3", "A", "4">>,
       doc |-> [code |-> <<"3", "A", "4">>, name |-> "Purchase Order",
                description |-> "High-tech industry purchase order",
                common_versions |-> <<"02.00.00">>,
                industries |-> <<"TECHNOLOGY">>,
                direction |-> "Outbound",
                transaction_flow |-> "Buyer -> Supplier"]],
      [key |-> <<"3", "A", "8">>,
       doc |-> [code |-> <<"3", "A", "8">>, name |-> "Purchase Order Change",
                description |-> "Modification to a technology purchase order",
                common_versions |-> <<"02.00.00">>,
                industries |-> <<"TECHNOLOGY">>,
                direction |-> "Both",
                transaction_flow |-> "Between trading partners"]],
      [key |-> <<"3", "B", "2">>,
       doc |-> [code |-> <<"3", "B", "2">>, name |-> "Shipping Notification",
                description |-> "Advanced shipping notice for technology products",
                common_versions |-> <<"02.00.00">>,
                industries |-> <<"TECHNOLOGY">>,
                direction |-> "Outbound",
                transaction_flow |-> "Supplier -> Buyer"]],
      [key |-> <<"4", "B", "2">>,
       doc |-> [code |-> <<"4", "B", "2">>, name |-> "Advance Shipment Notification",
                description |-> "Detailed shipment information for technology supply chain",
                common_versions |-> <<"02.00.00">>,
                industries |-> <<"TECHNOLOGY">>,
                direction |-> "Outbound",
                transaction_flow |-> "Supplier -> Buyer"]]>>

\* The TRADACOMS mapping with the key of ORDHDR written a second time in
\* place of ORDCHG: the later value replaces the earlier under the one key.
TRADACOMS_documents_key_repeated ==
    <<TRADACOMS_documents[1], TRADACOMS_documents[2],
      [key |-> TRADACOMS_documents[3].key, doc |-> TRADACOMS_documents[4].doc]>>

\* The dataset with that TRADACOMS mapping.
get_edi_documents_key_repeated ==
    <<[key |-> STANDARDS_get("ANSI_X12").name, value |-> ANSI_X12_documents],
      [key |-> STANDARDS_get("EDIFACT").name, value |-> EDIFACT_documents],
      [key |-> STANDARDS_get("TRADACOMS").name, value |-> TRADACOMS_documents_key_repeated],
      [key |-> STANDARDS_get("VDA").name, value |-> VDA_documents],
      [key |-> STANDARDS_get("ROSETTANET").name, value |-> ROSETTANET_documents]>>

\* get_edi_documents(): the ordered mapping standard name -> document mapping.
get_edi_documents ==
    <<[key |-> STANDARDS_get("ANSI_X12").name, value |-> ANSI_X12_documents],
      [key |-> STANDARDS_get("EDIFACT").name, value |-> EDIFACT_documents],
      [key |-> STANDARDS_get("TRADACOMS").name, value |-> TRADACOMS_documents],
      [key |-> STANDARDS_get("VDA").name, value |-> VDA_documents],
      [key |-> STANDARDS_get("ROSETTANET").name, value |-> ROSETTANET_documents]>>
\* The dataset as the module defines it: the global STANDARDS and the
\* mapping a call of get_edi_documents() builds.
defined_dataset == [standards |-> STANDARDS, documents |-> get_edi_documents]

\* edi_docs = get_edi_documents(): an operation builds the mapping anew.  What
\* it does with it afterwards (the dict comprehension of the standard filter,
\* sorted(), the loops) makes new objects or only reads, and STANDARDS is
\* only read.
rebuilt(d) == [d EXCEPT !.documents = get_edi_documents]

----------------------------------------------------------------------------
\* The ordered mappings (dict) of the dataset.

\* d.keys(), in insertion order.
dict_keys(d) == [i \in 1..Len(d) |-> d[i].key]

\* docs[code]
docs_get(docs, code) == docs[CHOOSE i \in 1..Len(docs) : docs[i].key = code].doc

\* The concatenation of a sequence of sequences of lines.
RECURSIVE concat(_)
concat(ss) == IF ss = <<>> THEN <<>> ELSE Head(ss) \o concat(Tail(ss))

----------------------------------------------------------------------------
\* list_standards

\* The lines one standard contributes to list_standards.
standard_lines(std, detailed) ==
    <<[kind |-> "bullet", standard |-> std.name]>>
    \o (IF detailed
        THEN <<[kind |-> "latest_version", text |-> std.latest_version],
               [kind |-> "region", text |-> std.region],
               [kind |-> "governing_body", text |-> std.governing_body],
               [kind |-> "established", year |-> std.year_established]>>
        ELSE <<>>)

list_standards(detailed) ==
    <<[kind |-> "supported_standards"]>>
    \o concat([i \in 1..Len(STANDARDS) |-> standard_lines(STANDARDS[i].value, detailed)])

----------------------------------------------------------------------------
\* The block of lines both listings print for one document.  Every
\* description of the dataset is shorter than the wrap width, so fill()
\* returns it on one line; the line records the text and the width.

document_block(code, doc) ==
    <<[kind |-> "document", code |-> code, name |-> doc.name],
      [kind |-> "direction", text |-> doc.direction]>>
    \o (IF doc.transaction_flow # ""
        THEN <<[kind |-> "flow", text |-> doc.transaction_flow]>>
        ELSE <<>>)
    \o <<[kind |-> "versions", items |-> doc.common_versions],
         [kind |-> "industries", items |-> doc.industries],
         [kind |-> "description", text |-> doc.description, width |-> 70]>>

----------------------------------------------------------------------------
\* sorted(docs.keys(), key=lambda x: (int(x) if x.isdigit() else x))

\* The key function: an int for an all-digit code, the code itself otherwise.
sort_key(x) ==
    IF str_isdigit(x) THEN [type |-> "int", value |-> int(x)]
                      ELSE [type |-> "str", value |-> x]

\* a < b for two keys of one type.
key_lt(a, b) ==
    IF a.type = "int" THEN a.value < b.value ELSE str_lt(a.value, b.value)

\* Stable insertion of x into a list already in key order.
RECURSIVE insert_by_key(_, _)
insert_by_key(xs, x) ==
    IF xs = <<>> THEN <<x>>
    ELSE IF key_lt(sort_key(x), sort_key(xs[Len(xs)]))
         THEN Append(insert_by_key(SubSeq(xs, 1, Len(xs) - 1), x), xs[Len(xs)])
         ELSE Append(xs, x)

RECURSIVE stable_sort(_)
stable_sort(xs) ==
    IF xs = <<>> THEN <<>>
    ELSE insert_by_key(stable_sort(SubSeq(xs, 1, Len(xs) - 1)), xs[Len(xs)])

\* The keys left as they came, the listing without its sort.
unsorted_keys(ks) == [raised |-> "None", value |-> ks]

\* sorted() over the keys.  `<' between an int and a str raises TypeError, and
\* a sort of two or more keys has to compare across the two types as soon as
\* both occur, so the call raises exactly when the key types are mixed.
sorted_keys(ks) ==
    IF \E i, j \in 1..Len(ks) : sort_key(ks[i]).type # sort_key(ks[j]).type
    THEN [raised |-> "TypeError", value |-> None]
    ELSE [raised |-> "None", value |-> stable_sort(ks)]

----------------------------------------------------------------------------
\* list_edi_documents

\* filter_standard.lower() in k.lower(), with the lower() of the filter left out.
standard_matches_as_typed(filter_standard, k) ==
    str_contains(filter_standard, str_lower(k))

\* filter_standard.lower() in k.lower()
standard_matches(filter_standard, k) ==
    str_contains(str_lower(filter_standard), str_lower(k))

\* The industry test with all() in place of any().
industry_matches_all(filter_industry, doc) ==
    \A i \in 1..Len(doc.industries) :
        str_contains(str_lower(filter_industry), str_lower(Industry[doc.industries[i]]))

\* any(filter_industry.lower() in ind.name.lower() for ind in doc.industries)
industry_matches(filter_industry, doc) ==
    \E i \in 1..Len(doc.industries) :
        str_contains(str_lower(filter_industry), str_lower(Industry[doc.industries[i]]))

\* The dict comprehension of the standard filter.
filter_standards(edi_docs, filter_standard) ==
    LET keep(e) == standard_matches(filter_standard, e.key)
    IN  SelectSeq(edi_docs, keep)

\* One pass of the inner loop: nothing for a document the industry filter
\* skips, its block otherwise.
listed_document(docs, code, filter_industry) ==
    LET doc == docs_get(docs, code)
    IN  IF truthy(filter_industry) /\ ~industry_matches(filter_industry, doc)
        THEN <<>>
        ELSE document_block(code, doc)

\* The outer loop over the standards that are left: header, divider and the
\* documents in sorted order.  An exception of sorted() ends the listing
\* after the header it was raised under.
RECURSIVE list_sections(_, _)
list_sections(edi_docs, filter_industry) ==
    IF edi_docs = <<>> THEN [out |-> <<>>, raised |-> "None"]
    ELSE LET standard == Head(edi_docs).key
             docs     == Head(edi_docs).value
             header   == <<[kind |-> "standard", standard |-> standard],
                           [kind |-> "divider", width |-> Len(standard) + 4]>>
             order    == sorted_keys(dict_keys(docs))
         IN  IF order.raised # "None"
             THEN [out |-> header, raised |-> order.raised]
             ELSE LET blocks == concat([i \in 1..Len(order.value) |->
                                    listed_document(docs, order.value[i], filter_industry)])
                      rest   == list_sections(Tail(edi_docs), filter_industry)
                  IN  [out |-> header \o blocks \o rest.out, raised |-> rest.raised]

\* The listing that goes on after the "no standards found" message.
list_edi_documents_no_return(filter_standard, filter_industry) ==
    LET edi_docs == IF truthy(filter_standard)
                    THEN filter_standards(get_edi_documents, filter_standard)
                    ELSE get_edi_documents
        message  == IF truthy(filter_standard) /\ edi_docs = <<>>
                    THEN <<[kind |-> "no_standards", filter |-> filter_standard]>>
                    ELSE <<>>
        sections == list_sections(edi_docs, filter_industry)
    IN  [out |-> message \o <<[kind |-> "document_reference"]>> \o sections.out,
         raised |-> sections.raised]

list_edi_documents(filter_standard, filter_industry) ==
    LET edi_docs == IF truthy(filter_standard)
                    THEN filter_standards(get_edi_documents, filter_standard)
                    ELSE get_edi_documents
    IN  IF truthy(filter_standard) /\ edi_docs = <<>>
        THEN [out |-> <<[kind |-> "no_standards", filter |-> filter_standard]>>,
              raised |-> "None"]
        ELSE LET sections == list_sections(edi_docs, filter_industry)
             IN  [out |-> <<[kind |-> "document_reference"]>> \o sections.out,
                  raised |-> sections.raised]

----------------------------------------------------------------------------
\* search_edi_code

\* The match test with `and' in place of `or'.
code_matches_and(code, doc_code, show_all) == str_contains(code, doc_code) /\ show_all

\* code in doc_code or show_all
code_matches(code, doc_code, show_all) == str_contains(code, doc_code) \/ show_all

\* One pass of the inner loop: the standard's header and the document's block
\* for a match, nothing otherwise.
search_document(standard, entry, code, show_all) ==
    IF code_matches(code, entry.key, show_all)
    THEN <<[kind |-> "standard", standard |-> standard]>>
         \o document_block(entry.key, entry.doc)
    ELSE <<>>

\* The two loops, over the standards and over each one's documents in
\* definition order.
search_loop(edi_docs, code, show_all) ==
    concat([s \in 1..Len(edi_docs) |->
        concat([d \in 1..Len(edi_docs[s].value) |->
            search_document(edi_docs[s].key, edi_docs[s].value[d], code, show_all)])])

\* found, after the loops: some document matched.
search_found(edi_docs, code, show_all) ==
    \E s \in 1..Len(edi_docs) : \E d \in 1..Len(edi_docs[s].value) :
        code_matches(code, edi_docs[s].value[d].key, show_all)

\* The closing test turned round: `if found' in place of `if not found'.
search_tail_inverted(found, code) ==
    IF found THEN <<[kind |-> "no_documents", code |-> code]>> ELSE <<>>

\* if not found: print(...)
search_tail(found, code) ==
    IF ~found THEN <<[kind |-> "no_documents", code |-> code]>> ELSE <<>>

search_edi_code(code, show_all) ==
    LET edi_docs == get_edi_documents
        upper    == str_upper(code)
    IN  <<[kind |-> "search_results", code |-> upper]>>
        \o search_loop(edi_docs, upper, show_all)
        \o search_tail(search_found(edi_docs, upper, show_all), upper)

----------------------------------------------------------------------------
\* main's dispatch (the if / elif / else after parse_args).

\* The dispatch with the code tested before the list-standards flag.
main_branch_code_first(a) ==
    IF truthy(a.code) THEN "search_edi_code"
    ELSE IF a.list_standards THEN "list_standards"
    ELSE "list_edi_documents"

main_branch(a) ==
    IF a.list_standards THEN "list_standards"
    ELSE IF truthy(a.code) THEN "search_edi_code"
    ELSE "list_edi_documents"

----------------------------------------------------------------------------
\* The inputs.

MaxCodeLen == 2      \* longest generated -c value
MaxFilterLen == 2    \* longest generated -s / -i value
MaxKeys == 3         \* most keys handed to sorted() on its own

\* Every sequence over `alphabet' of length at most n.
Strings(alphabet, n) == UNION {[1..k -> alphabet] : k \in 0..n}

\* Every code of the dataset.
DocumentCodes ==
    UNION {Range(dict_keys(get_edi_documents[s].value)) : s \in 1..Len(get_edi_documents)}

\* Values of code: the short strings over a few characters (the empty string
\* among them), every code of the dataset as written and in lower case, and
\* one that is part of no code.
CodeInputs ==
    Strings({"8", "o", "R", "Z"}, MaxCodeLen)
    \cup DocumentCodes
    \cup {str_lower(c) : c \in DocumentCodes}
    \cup {<<"Z", "Z", "Z", "Z">>}

\* Values of filter_standard other than None.
StandardFilterInputs ==
    Strings({"a", "A", "t"}, MaxFilterLen)
    \cup {<<"x", "1", "2">>, <<"X", "1", "2">>, <<"E", "d", "i">>,
          <<"n", "o", "n", "e", "x", "i", "s", "t", "e", "n", "t", "-", "x", "y", "z">>}

\* Values of filter_industry other than None.
IndustryFilterInputs ==
    Strings({"a", "A", "t"}, MaxFilterLen)
    \cup {<<"h", "e", "a", "l", "t", "h", "c", "a", "r", "e">>,
          <<"H", "e", "a", "l", "t", "h">>,
          <<"f", "i", "s", "h">>}

\* Values of -s and -i in a run of main.
MainStandardValues == {None, <<>>, <<"x", "1", "2">>, <<"f", "i", "s", "h">>}

MainIndustryValues == {None, <<"h", "e", "a", "l", "t", "h", "c", "a", "r", "e">>}

\* Codes a hypothetical standard may carry: all-digit ones, among them two
\* of one value, and others.
KeyInputs ==
    {<<"9">>, <<"1", "0">>, <<"0", "1", "0">>, <<"8", "1", "0">>,
     <<"3", "A", "4">>, <<"O", "R", "D", "E", "R", "S">>}

\* The lists of distinct keys (a dict's keys) of at most MaxKeys keys.
KeyLists ==
    {ks \in UNION {[1..n -> KeyInputs] : n \in 0..MaxKeys} :
        \A i, j \in 1..Len(ks) : i # j => ks[i] # ks[j]}

\* The value of a variable the run has not set.
Unset == [unset |-> TRUE]

\* What a call that returned normally, or one that raised, leaves.
returned(r) == [raised |-> r, value |-> None]

----------------------------------------------------------------------------
\* One run of main: parse_args, then the branch main takes.

Init ==
    /\ pc = "start"
    /\ args = Unset
    /\ calls = <<>>
    /\ out = <<>>
    /\ out2 = <<>>
    /\ keys = <<>>
    /\ result = Unset
    /\ dataset = defined_dataset

ParseArgs ==
    /\ pc = "start"
    /\ \E s \in MainStandardValues, i \in MainIndustryValues,
          c \in {None} \cup CodeInputs, a \in BOOLEAN, l \in BOOLEAN, d \in BOOLEAN :
            args' = [standard |-> s, industry |-> i, code |-> c,
                     all |-> a, list_standards |-> l, detailed |-> d]
    /\ pc' = "parsed"
    /\ UNCHANGED <<calls, out, out2, keys, result, dataset>>

MainListStandards ==
    /\ pc = "parsed"
    /\ main_branch(args) = "list_standards"
    /\ calls' = Append(calls, [op |-> "list_standards", detailed |-> args.detailed])
    /\ out' = out \o list_standards(args.detailed)
    /\ result' = returned("None")
    /\ pc' = "done"
    /\ UNCHANGED <<args, out2, keys, dataset>>

MainSearch ==
    /\ pc = "parsed"
    /\ main_branch(args) = "search_edi_code"
    /\ calls' = Append(calls, [op |-> "search_edi_code", code |-> args.code,
                               show_all |-> args.all])
    /\ out' = out \o search_edi_code(args.code, args.all)
    /\ result' = returned("None")
    /\ pc' = "done"
    /\ dataset' = rebuilt(dataset)
    /\ UNCHANGED <<args, out2, keys>>

MainListDocuments ==
    /\ pc = "parsed"
    /\ main_branch(args) = "list_edi_documents"
    /\ LET r == list_edi_documents(args.standard, args.industry)
       IN  /\ out' = out \o r.out
           /\ result' = returned(r.raised)
    /\ calls' = Append(calls, [op |-> "list_edi_documents",
                               filter_standard |-> args.standard,
                               filter_industry |-> args.industry])
    /\ pc' = "done"
    /\ dataset' = rebuilt(dataset)
    /\ UNCHANGED <<args, out2, keys>>

Next == ParseArgs \/ MainListStandards \/ MainSearch \/ MainListDocuments

Spec == Init /\ [][Next]_vars

----------------------------------------------------------------------------
\* The three operations called directly, one call after another.

CallInit ==
    /\ pc = "idle"
    /\ args = Unset
    /\ calls = <<>>
    /\ out = <<>>
    /\ out2 = <<>>
    /\ keys = <<>>
    /\ result = Unset
    /\ dataset = defined_dataset

CallListStandards ==
    /\ pc = "idle"
    /\ \E d \in BOOLEAN :
        /\ args' = [op |-> "list_standards", detailed |-> d]
        /\ out' = list_standards(d)
    /\ result' = returned("None")
    /\ pc' = "returned"
    /\ UNCHANGED <<calls, out2, keys, dataset>>

CallListDocuments ==
    /\ pc = "idle"
    /\ \E fs \in {None} \cup StandardFilterInputs, fi \in {None} \cup IndustryFilterInputs :
        LET r == list_edi_documents(fs, fi)
        IN  /\ args' = [op |-> "list_edi_documents",
                        filter_standard |-> fs, filter_industry |-> fi]
            /\ out' = r.out
            /\ result' = returned(r.raised)
    /\ pc' = "returned"
    /\ dataset' = rebuilt(dataset)
    /\ UNCHANGED <<calls, out2, keys>>

CallSearch ==
    /\ pc = "idle"
    /\ \E c \in CodeInputs, a \in BOOLEAN :
        /\ args' = [op |-> "search_edi_code", code |-> c, show_all |-> a]
        /\ out' = search_edi_code(c, a)
    /\ result' = returned("None")
    /\ pc' = "returned"
    /\ dataset' = rebuilt(dataset)
    /\ UNCHANGED <<calls, out2, keys>>

\* The caller goes on to its next call; nothing of the last one is kept.
Return ==
    /\ pc = "returned"
    /\ pc' = "idle"
    /\ args' = Unset
    /\ out' = <<>>
    /\ result' = Unset
    /\ UNCHANGED <<calls, out2, keys, dataset>>

CallNext == CallListStandards \/ CallListDocuments \/ CallSearch \/ Return

CallSpec == CallInit /\ [][CallNext]_vars

----------------------------------------------------------------------------
\* Two listings, the second with the standard filter of the first in another
\* letter case (or the same one) and with the same industry filter.

PairInit ==
    /\ pc = "pair"
    /\ args = Unset
    /\ calls = <<>>
    /\ out = <<>>
    /\ out2 = <<>>
    /\ keys = <<>>
    /\ result = Unset
    /\ dataset = defined_dataset

\* Two filters that differ at most in letter case.
same_but_case(f, g) ==
    IF f = None \/ g = None THEN f = g ELSE str_lower(f) = str_lower(g)

ListFirst ==
    /\ pc = "pair"
    /\ \E fs \in {None} \cup StandardFilterInputs, fi \in {None} \cup IndustryFilterInputs :
        /\ args' = [first |-> fs, second |-> None, filter_industry |-> fi]
        /\ out' = list_edi_documents(fs, fi).out
    /\ pc' = "listed_once"
    /\ dataset' = rebuilt(dataset)
    /\ UNCHANGED <<calls, out2, keys, result>>

ListAgain ==
    /\ pc = "listed_once"
    /\ \E fs \in {None} \cup StandardFilterInputs :
        /\ same_but_case(args.first, fs)
        /\ args' = [args EXCEPT !.second = fs]
        /\ out2' = list_edi_documents(fs, args.filter_industry).out
    /\ pc' = "listed_twice"
    /\ dataset' = rebuilt(dataset)
    /\ UNCHANGED <<calls, out, keys, result>>

PairNext == ListFirst \/ ListAgain

PairSpec == PairInit /\ [][PairNext]_vars

----------------------------------------------------------------------------
\* sorted() on the keys of a hypothetical standard.

SortInit ==
    /\ pc = "keys"
    /\ args = Unset
    /\ calls = <<>>
    /\ out = <<>>
    /\ out2 = <<>>
    /\ keys = <<>>
    /\ result = Unset
    /\ dataset = defined_dataset

ChooseKeys ==
    /\ pc = "keys"
    /\ \E ks \in KeyLists : keys' = ks
    /\ pc' = "sorting"
    /\ UNCHANGED <<args, calls, out, out2, result, dataset>>

Sort ==
    /\ pc = "sorting"
    /\ result' = sorted_keys(keys)
    /\ pc' = "sorted"
    /\ UNCHANGED <<args, calls, out, out2, keys, dataset>>

SortNext == ChooseKeys \/ Sort

SortSpec == SortInit /\ [][SortNext]_vars

----------------------------------------------------------------------------
\* Reading the output back.

\* The standards whose header was printed, in order of printing.
printed_standards(o) ==
    LET header(l) == l.kind = "standard"
        hs == SelectSeq(o, header)
    IN  [i \in 1..Len(hs) |-> hs[i].standard]

\* The standard of the last header printed before line i (None before any).
standard_above(o, i) ==
    LET hs == {j \in 1..i : o[j].kind = "standard"}
    IN  IF hs = {} THEN None
        ELSE o[CHOOSE j \in hs : \A k \in hs : k <= j].standard

\* The document blocks printed, in order of printing, each with the standard
\* of the last header before it.
printed_blocks(o) ==
    LET document(i) == o[i].kind = "document"
        at == SelectSeq([i \in 1..Len(o) |-> i], document)
    IN  [n \in 1..Len(at) |->
            [standard |-> standard_above(o, at[n]),
             code |-> o[at[n]].code, name |-> o[at[n]].name]]

\* The codes printed under standard std, in order of printing.
codes_under(o, std) ==
    LET under(b) == b.standard = std
        bs == SelectSeq(printed_blocks(o), under)
    IN  [i \in 1..Len(bs) |-> bs[i].code]

\* Every (standard, document) pair of the dataset, in definition order.
dataset_pairs ==
    concat([s \in 1..Len(get_edi_documents) |->
        [d \in 1..Len(get_edi_documents[s].value) |->
            [standard |-> get_edi_documents[s].key,
             code |-> get_edi_documents[s].value[d].doc.code,
             name |-> get_edi_documents[s].value[d].doc.name]]])

\* The display names of the standards, in dataset order.
standard_names == [s \in 1..Len(STANDARDS) |-> STANDARDS[s].value.name]

Returned(op) == pc = "returned" /\ args.op = op

----------------------------------------------------------------------------
\* C1: every run of main, whatever the six flags, invokes exactly one of the
\* three operations, and with the list-standards flag set that operation is
\* list_standards, whatever -c, -a, -s and -i are.
C1_ExactlyOneOperation ==
    /\ pc # "done" => calls = <<>>
    /\ pc = "done" =>
        /\ Len(calls) = 1
        /\ calls[1].op \in {"list_standards", "search_edi_code", "list_edi_documents"}
        /\ args.list_standards =>
            /\ calls[1] = [op |-> "list_standards", detailed |-> args.detailed]
            /\ out[1].kind = "supported_standards"

\* A run with -l and every other flag given as well, which listed the standards.
C1_Witness ==
    /\ pc = "done"
    /\ args.list_standards /\ args.all /\ args.detailed
    /\ truthy(args.code) /\ truthy(args.standard) /\ truthy(args.industry)
    /\ calls[1].op = "list_standards"

\* C2: without the list-standards flag and with a -c value present, whatever
\* string it is (the empty string too), main runs the code search with that
\* code and the show-all flag, and not the document listing.
C2_CodePresentRunsSearch ==
    (pc = "done" /\ ~args.list_standards /\ args.code # None) =>
        calls = <<[op |-> "search_edi_code", code |-> args.code, show_all |-> args.all]>>

\* C3: searching the code of a document D of standard S, without show_all,
\* prints a match under S's header whose code is D.code and whose name is D.name.
C3_SearchFindsEveryDocument ==
    (Returned("search_edi_code") /\ ~args.show_all) =>
        \A s \in 1..Len(get_edi_documents) :
            \A d \in 1..Len(get_edi_documents[s].value) :
                LET S == get_edi_documents[s].key
                    D == get_edi_documents[s].value[d].doc
                IN  args.code = D.code =>
                        \E i \in 1..(Len(out) - 1) :
                            /\ out[i] = [kind |-> "standard", standard |-> S]
                            /\ out[i + 1] = [kind |-> "document", code |-> D.code,
                                             name |-> D.name]

\* The search for ORDERS has returned with the EDIFACT purchase order.
C3_Witness ==
    /\ Returned("search_edi_code") /\ ~args.show_all
    /\ args.code = <<"O", "R", "D", "E", "R", "S">>
    /\ \E i \in 1..(Len(out) - 1) :
        /\ out[i].kind = "standard" /\ out[i].standard = STANDARDS_get("EDIFACT").name
        /\ out[i + 1].kind = "document" /\ out[i + 1].name = "Purchase Order"

\* a before-or-equal b in the listing's order: by value for two all-digit
\* codes, by character otherwise.
code_le(a, b) ==
    IF str_isdigit(a) /\ str_isdigit(b) THEN int(a) <= int(b) ELSE ~str_lt(b, a)

\* C4: the unfiltered listing prints a section for every standard, in dataset
\* order, and in each section all of the standard's documents, once each, in
\* non-decreasing key order (TRADACOMS: ORDCHG before ORDHDR).
C4_FullListingSorted ==
    (Returned("list_edi_documents")
        /\ args.filter_standard = None /\ args.filter_industry = None) =>
        /\ printed_standards(out) = dict_keys(get_edi_documents)
        /\ \A s \in 1..Len(get_edi_documents) :
            LET codes == codes_under(out, get_edi_documents[s].key)
                docs  == get_edi_documents[s].value
            IN  /\ Len(codes) = Len(docs)
                /\ Range(codes) = Range(dict_keys(docs))
                /\ \A i \in 1..(Len(codes) - 1) : code_le(codes[i], codes[i + 1])
        /\ codes_under(out, STANDARDS_get("TRADACOMS").name) =
            <<<<"D", "E", "L", "H", "D", "R">>, <<"I", "N", "V", "F", "I", "L">>,
              <<"O", "R", "D", "C", "H", "G">>, <<"O", "R", "D", "H", "D", "R">>>>

\* The unfiltered listing has returned, and its order differs from the
\* definition order in the TRADACOMS section.
C4_Witness ==
    /\ Returned("list_edi_documents")
    /\ args.filter_standard = None /\ args.filter_industry = None
    /\ Len(printed_blocks(out)) = Len(dataset_pairs)
    /\ codes_under(out, STANDARDS_get("TRADACOMS").name)
         # dict_keys(TRADACOMS_documents)

\* C5: the listing's sort completes for keys that mix all-digit and other
\* codes: comparing an int key with a str key raises nothing.
C5_MixedSortCompletes ==
    pc = "sorted" => result.raised = "None"

\* No document code contains the upper-cased code.
matches_no_code(code) ==
    \A c \in DocumentCodes : ~str_contains(str_upper(code), c)

\* C6 as stated: for a code that is part of no document code, the search
\* prints the "no documents found" message and nothing else.
C6_OnlyNotFoundMessage ==
    (Returned("search_edi_code") /\ ~args.show_all /\ matches_no_code(args.code)) =>
        out = <<[kind |-> "no_documents", code |-> str_upper(args.code)]>>

\* C6 as amended: for such a code the search prints its "Search Results for"
\* line, then the "no documents found" message once, and nothing else.
C6_HeaderThenNotFoundMessage ==
    (Returned("search_edi_code") /\ ~args.show_all /\ matches_no_code(args.code)) =>
        out = <<[kind |-> "search_results", code |-> str_upper(args.code)],
                [kind |-> "no_documents", code |-> str_upper(args.code)]>>

\* The search for ZZZZ has returned.
C6_Witness ==
    /\ Returned("search_edi_code") /\ ~args.show_all
    /\ args.code = <<"Z", "Z", "Z", "Z">>
    /\ matches_no_code(args.code)
    /\ Len(out) = 2

\* No standard's display name contains the filter, letter case aside.
matches_no_standard(f) ==
    \A s \in 1..Len(standard_names) :
        ~str_contains(str_lower(f), str_lower(standard_names[s]))

\* C7: a standard filter that no standard's display name contains makes the
\* listing print the "no standards found" message and nothing else, whatever
\* the industry filter.
C7_OnlyNoStandardsMessage ==
    (Returned("list_edi_documents") /\ args.filter_standard # None
        /\ matches_no_standard(args.filter_standard)) =>
        out = <<[kind |-> "no_standards", filter |-> args.filter_standard]>>

\* The listing for "nonexistent-xyz" with an industry filter has returned.
C7_Witness ==
    /\ Returned("list_edi_documents")
    /\ args.filter_standard =
        <<"n", "o", "n", "e", "x", "i", "s", "t", "e", "n", "t", "-", "x", "y", "z">>
    /\ truthy(args.filter_industry)
    /\ matches_no_standard(args.filter_standard)
    /\ Len(out) = 1

codes_of_industry(docs, f) ==
    {docs[d].key : d \in {e \in 1..Len(docs) :
        \E n \in Range(docs[e].doc.industries) :
            str_contains(str_lower(f), str_lower(Industry[n]))}}

\* C9: with a non-empty industry filter and no standard filter the listing
\* prints every standard's header and, under each, exactly the documents
\* with an industry whose name contains the filter, letter case aside; for
\* "healthcare" these are ANSI X12 810, 834 and 997 and no others.
C9_IndustryFilter ==
    (Returned("list_edi_documents") /\ args.filter_standard = None
        /\ truthy(args.filter_industry)) =>
        /\ printed_standards(out) = dict_keys(get_edi_documents)
        /\ \A s \in 1..Len(get_edi_documents) :
            LET codes == codes_under(out, get_edi_documents[s].key)
            IN  /\ Range(codes) =
                    codes_of_industry(get_edi_documents[s].value, args.filter_industry)
                /\ Cardinality(Range(codes)) = Len(codes)
        /\ args.filter_industry = <<"h", "e", "a", "l", "t", "h", "c", "a", "r", "e">> =>
            printed_blocks(out) =
                <<[standard |-> STANDARDS_get("ANSI_X12").name,
                   code |-> <<"8", "1", "0">>, name |-> "Invoice"],
                  [standard |-> STANDARDS_get("ANSI_X12").name,
                   code |-> <<"8", "3", "4">>, name |-> "Benefit Enrollment and Maintenance"],
                  [standard |-> STANDARDS_get("ANSI_X12").name,
                   code |-> <<"9", "9", "7">>, name |-> "Functional Acknowledgment"]>>

\* The listing for industry "healthcare" has returned: three documents, and
\* the headers of all five standards.
C9_Witness ==
    /\ Returned("list_edi_documents") /\ args.filter_standard = None
    /\ args.filter_industry = <<"h", "e", "a", "l", "t", "h", "c", "a", "r", "e">>
    /\ Len(printed_blocks(out)) = 3
    /\ Len(printed_standards(out)) = Len(STANDARDS)

\* The lines of a listing: the output without a "no standards found" message.
listing(o) ==
    LET listed(l) == l.kind # "no_standards"
    IN  SelectSeq(o, listed)

\* C10: two listings whose standard filters differ only in letter case, with
\* the same industry filter, select the same standards and the same
\* documents in the same order and print the same listing; whenever a
\* standard is selected the two outputs are the same line for line.
C10_FilterCaseInsensitive ==
    (pc = "listed_twice" /\ same_but_case(args.first, args.second)) =>
        /\ printed_standards(out) = printed_standards(out2)
        /\ printed_blocks(out) = printed_blocks(out2)
        /\ listing(out) = listing(out2)
        /\ printed_standards(out) # <<>> => out = out2

\* The listings for "x12" and for "X12" have both been printed.
C10_Witness ==
    /\ pc = "listed_twice"
    /\ args.first = <<"x", "1", "2">> /\ args.second = <<"X", "1", "2">>
    /\ printed_standards(out) = <<STANDARDS_get("ANSI_X12").name>>
    /\ Len(printed_blocks(out2)) = Len(ANSI_X12_documents)

\* The values direction may take.
Directions == {"Inbound", "Outbound", "Both"}

\* C11: whatever calls of list_standards, list_edi_documents and
\* search_edi_code have been made, the dataset is as its definition writes it
\* (five standards with 11, 7, 4, 3 and 4 documents), and in each standard's
\* mapping the keys are distinct, each key is the code of its document,
\* common_versions is not empty and direction is Inbound, Outbound or Both.
C11_DatasetIntact ==
    /\ dataset = defined_dataset
    /\ dict_keys(dataset.documents) = [s \in 1..Len(dataset.standards) |->
                                          dataset.standards[s].value.name]
    /\ [s \in 1..Len(dataset.documents) |-> Len(dataset.documents[s].value)]
         = <<11, 7, 4, 3, 4>>
    /\ \A s \in 1..Len(dataset.documents) :
        LET docs == dataset.documents[s].value
        IN  /\ \A i, j \in 1..Len(docs) : i # j => docs[i].key # docs[j].key
            /\ \A i \in 1..Len(docs) :
                /\ docs[i].key = docs[i].doc.code
                /\ docs[i].doc.common_versions # <<>>
                /\ docs[i].doc.direction \in Directions

\* A listing that kept some standards and dropped others has returned, and
\* the dataset still holds all five.
C11_Witness ==
    /\ Returned("list_edi_documents")
    /\ truthy(args.filter_standard) /\ truthy(args.filter_industry)
    /\ Len(printed_standards(out)) \in 1..(Len(STANDARDS) - 1)
    /\ printed_blocks(out) # <<>>
    /\ Len(dataset.documents) = Len(STANDARDS)

====
